---- MODULE Spec2Model ----
(***************************************************************************)
(* A model of the thermodynamic calculator: the property facade            *)
(* (src/src/properties.py, PropertyCalculator), the process analyzer       *)
(* (src/src/processes.py, ProcessAnalyzer) and the `property` command      *)
(* (src/src/cli.py).                                                       *)
(*                                                                         *)
(* Representation of the program's values:                                 *)
(*   - a string that the code inspects character by character (a fluid     *)
(*     identifier) is a sequence of ASCII codes, so that str.lower() is    *)
(*     computed and not assumed;                                           *)
(*   - a float is a scaled integer: temperatures in 0.01 degree (so that   *)
(*     273.15 is 27315), pressures in kPa at the boundary and Pa at the    *)
(*     collaborator, specific energies in kJ/kg at the boundary and J/kg   *)
(*     at the collaborator, quality in percent (1.0 is 100), specific      *)
(*     volume in 1e-5 m3/kg, the efficiency in percent, the polytropic     *)
(*     index in tenths;                                                    *)
(*   - Python's None for an optional number is the empty sequence << >>    *)
(*     and a present number x is <<x>>.                                    *)
(* The external collaborator (CoolProp's PropsSI) is a deterministic       *)
(* function of its arguments whose behaviour the repository does not fix:  *)
(* it is a small tabulated fluid with a liquid, a two-phase and a vapour   *)
(* region, and the variable cp, chosen once in Init, selects what it does  *)
(* where the code leaves it open (a (T,P) query on the saturation line,    *)
(* a quality query on a single-phase state).                               *)
(***************************************************************************)
EXTENDS Integers, Sequences, FiniteSets, TLC

VARIABLES cp, self, created, calls, op, out, qlog, ncalls

vars == <<cp, self, created, calls, op, out, qlog, ncalls>>

\* The number of calls followed on one instance.
MaxCalls == 2

(***************************************************************************)
(* Strings as sequences of ASCII codes.                                    *)
(***************************************************************************)
s_water == <<119, 97, 116, 101, 114>>
s_air == <<97, 105, 114>>
s_r134a == <<114, 49, 51, 52, 97>>
s_r22 == <<114, 50, 50>>
s_co2 == <<99, 111, 50>>
s_Water == <<87, 97, 116, 101, 114>>
s_Air == <<65, 105, 114>>
s_R134a == <<82, 49, 51, 52, 97>>
s_R22 == <<82, 50, 50>>
s_CO2 == <<67, 79, 50>>

\* str.lower() on one ASCII character, and on a string.
lower_char(c) == IF c >= 65 /\ c <= 90 THEN c + 32 ELSE c

lower(s) == [k \in 1..Len(s) |-> lower_char(s[k])]

\* PropertyCalculator.FLUID_MAP
FLUID_MAP ==
  [k \in {s_water, s_air, s_r134a, s_r22, s_co2} |->
     CASE k = s_water -> s_Water
       [] k = s_air -> s_Air
       [] k = s_r134a -> s_R134a
       [] k = s_r22 -> s_R22
       [] k = s_co2 -> s_CO2]

(***************************************************************************)
(* Optional values and errors.                                             *)
(***************************************************************************)
None == << >>

Some(x) == <<x>>

\* An exception: its Python type and its message, a sequence of parts.
Error(type, msg) == [type |-> type, msg |-> msg]

NoError == Error("", << >>)

(***************************************************************************)
(* The external collaborator, CP.PropsSI(out, k1, v1, k2, v2, fluid).      *)
(* A tabulated fluid: two isobars (100 and 200 kPa), six states on each,   *)
(* ordered by enthalpy.  On the isobar p the states p+1, p+2 and p+3 are   *)
(* the saturated liquid, a two-phase mixture (quality 0.5) and the         *)
(* saturated vapour: all three have the same temperature and pressure.     *)
(* A query whose inputs are not in the table fails, as CoolProp does on an *)
(* out-of-range input.                                                     *)
(***************************************************************************)
CanonicalNames == {s_Water, s_Air, s_R134a, s_R22, s_CO2}

PLevels == {1, 2}

StateIdx == 1..6

TGrid == <<27315, 32315, 37315, 54630>>

DensityRow == <<1000, 500, 250, 100, 50, 25>>

FluidOffset(f) ==
  CASE f = s_Water -> 0
    [] f = s_Air -> 100000
    [] f = s_R134a -> 200000
    [] f = s_R22 -> 300000
    [] f = s_CO2 -> 400000

SatLiquid(p) == p + 1

SatVapour(p) == p + 3

TwoPhase(p, i) == i >= SatLiquid(p) /\ i <= SatVapour(p)

tbl_T(p, i) ==
  TGrid[IF i <= p THEN i ELSE IF i <= SatVapour(p) THEN p + 1 ELSE i - 2]

tbl_P(p) == 100000 * p

tbl_H(f, p, i) == 100000 * (i + p) + FluidOffset(f)

tbl_S(p, i) == 1000 * (i - p)

tbl_D(p, i) == p * DensityRow[i]

tbl_U(f, p, i) == tbl_H(f, p, i) - 10000 * i

tbl_Q(p, i) == (i - SatLiquid(p)) * 50

\* What the collaborator may do where the repository does not decide it.
CollaboratorModes ==
  [satTP : {"liquid", "vapour", "raise"}, qSingle : {"sentinel", "raise"}]

Ok(v) == [ok |-> TRUE, val |-> v, msg |-> ""]

Fail(m) == [ok |-> FALSE, val |-> 0, msg |-> m]

Query(o, k1, v1, k2, v2, fluid) ==
  [out |-> o, k1 |-> k1, v1 |-> v1, k2 |-> k2, v2 |-> v2, fluid |-> fluid]

\* A tabulated property of the state i of the isobar p.
Prop(c, o, f, p, i) ==
  CASE o = "T" -> Ok(tbl_T(p, i))
    [] o = "P" -> Ok(tbl_P(p))
    [] o = "H" -> Ok(tbl_H(f, p, i))
    [] o = "S" -> Ok(tbl_S(p, i))
    [] o = "D" -> Ok(tbl_D(p, i))
    [] o = "U" -> Ok(tbl_U(f, p, i))
    [] o = "Q" ->
         IF TwoPhase(p, i) THEN Ok(tbl_Q(p, i))
         ELSE IF c.qSingle = "sentinel" THEN Ok(-100)
         ELSE Fail("quality is not defined for a single-phase state")
    [] OTHER -> Fail("invalid output parameter")

\* Whether the inputs of the query q select the state i of the isobar p.
Selects(q, p, i) ==
  LET pair == <<q.k1, q.k2>>
  IN  CASE pair = <<"T", "P">> -> tbl_T(p, i) = q.v1 /\ tbl_P(p) = q.v2
        [] pair = <<"T", "Q">> ->
             /\ tbl_T(p, i) = q.v1
             /\ q.v2 >= 0 /\ q.v2 <= 100
             /\ i = SatLiquid(p) + (q.v2 \div 50)
        [] pair = <<"P", "Q">> ->
             /\ tbl_P(p) = q.v1
             /\ q.v2 >= 0 /\ q.v2 <= 100
             /\ i = SatLiquid(p) + (q.v2 \div 50)
        [] pair = <<"P", "H">> -> tbl_P(p) = q.v1 /\ tbl_H(q.fluid, p, i) = q.v2
        [] pair = <<"P", "S">> -> tbl_P(p) = q.v1 /\ tbl_S(p, i) = q.v2
        [] pair = <<"H", "S">> -> tbl_H(q.fluid, p, i) = q.v1 /\ tbl_S(p, i) = q.v2
        [] OTHER -> FALSE

Matches(q) == {st \in PLevels \X StateIdx : Selects(q, st[1], st[2])}

\* The answer to q, m being the states its inputs select.  Several states
\* are selected only by a (T,P) on the saturation line: the three states of
\* the dome.
Answer(c, q, m, st) ==
  IF m = {} THEN Fail("inputs are out of range")
  ELSE IF q.k2 = "Q" /\ q.v2 \notin {0, 50, 100} /\ q.out \notin {"T", "P"}
    THEN Fail("quality is not tabulated")
  ELSE IF Cardinality(m) > 1 /\ c.satTP = "raise"
    THEN Fail("saturation pressure is within 1e-4 % of given p")
  ELSE Prop(c, q.out, q.fluid, st[1],
            IF Cardinality(m) = 1 THEN st[2]
            ELSE IF c.satTP = "liquid" THEN SatLiquid(st[1])
            ELSE SatVapour(st[1]))

AnyOf(m) == IF m = {} THEN <<0, 0>> ELSE CHOOSE x \in m : TRUE

AnswerFrom(c, q, m) == Answer(c, q, m, AnyOf(m))

PropsSI(c, q) ==
  IF q.fluid \notin CanonicalNames THEN Fail("fluid is not known")
  ELSE AnswerFrom(c, q, Matches(q))

\* The answers to the queries qs, in order.
RunQueries(c, qs) == [k \in 1..Len(qs) |-> PropsSI(c, qs[k])]

\* The index of the first failed answer among the first n, or 0.
FirstFailure(rs, n) ==
  IF \E k \in 1..n : ~rs[k].ok
    THEN CHOOSE k \in 1..n : ~rs[k].ok /\ \A j \in 1..(k - 1) : rs[j].ok
  ELSE 0

(***************************************************************************)
(* PropertyCalculator (src/src/properties.py).                             *)
(***************************************************************************)
\* The messages of the facade's own errors.
MsgUnsupportedFluid == "Unsupported fluid: "

MsgTwoProperties ==
  "Must provide two independent properties (temp+pressure, temp+quality, etc.)"

MsgWrapper == "Error calculating properties: "

MsgTempOrPressure == "Must specify either temperature or pressure"

MsgZeroDivision == "float division by zero"

\* `except Exception as e: raise ValueError(f"Error calculating properties: {str(e)}")`
WrapError(inner) == Error("ValueError", <<MsgWrapper, inner>>)

\* An exception of the collaborator, as it leaves CP.PropsSI.
NativeError(m) == Error("ValueError", <<m>>)

ZeroDivisionError == Error("ZeroDivisionError", <<MsgZeroDivision>>)

\* Unit conversions at the boundary.
C_to_K(t) == t + 27315

K_to_C(T) == T - 27315

kPa_to_Pa(p) == p * 1000

Pa_to_kPa(P) == P \div 1000

kJ_to_J(h) == h * 1000

J_to_kJ(H) == H \div 1000

\* 1.0 / density, in 1e-5 m3/kg.
Reciprocal(d) == 100000 \div d

Has(kwargs, k) == k \in DOMAIN kwargs

\* Which branch of the if/elif chain of get_properties is taken.
InputBranch(kwargs) ==
  IF Has(kwargs, "temp") /\ Has(kwargs, "pressure") THEN "temp+pressure"
  ELSE IF Has(kwargs, "temp") /\ Has(kwargs, "quality") THEN "temp+quality"
  ELSE IF Has(kwargs, "pressure") /\ Has(kwargs, "enthalpy") THEN "pressure+enthalpy"
  ELSE IF Has(kwargs, "pressure") /\ Has(kwargs, "entropy") THEN "pressure+entropy"
  ELSE IF Has(kwargs, "enthalpy") /\ Has(kwargs, "entropy") THEN "enthalpy+entropy"
  ELSE "else"

\* The collaborator queries of the branch b (lines 44, 49, 54, 59-60).
ResolutionQueries(b, fluid, kwargs) ==
  CASE b = "temp+quality" ->
         <<Query("P", "T", C_to_K(kwargs["temp"]), "Q", kwargs["quality"], fluid)>>
    [] b = "pressure+enthalpy" ->
         <<Query("T", "P", kPa_to_Pa(kwargs["pressure"]),
                 "H", kJ_to_J(kwargs["enthalpy"]), fluid)>>
    [] b = "pressure+entropy" ->
         <<Query("T", "P", kPa_to_Pa(kwargs["pressure"]),
                 "S", kJ_to_J(kwargs["entropy"]), fluid)>>
    [] b = "enthalpy+entropy" ->
         <<Query("T", "H", kJ_to_J(kwargs["enthalpy"]),
                 "S", kJ_to_J(kwargs["entropy"]), fluid),
           Query("P", "H", kJ_to_J(kwargs["enthalpy"]),
                 "S", kJ_to_J(kwargs["entropy"]), fluid)>>
    [] OTHER -> << >>

\* T and P of the branch b, from the inputs and the answers rs.
ResolvedT(b, kwargs, rs) ==
  IF b \in {"temp+pressure", "temp+quality"} THEN C_to_K(kwargs["temp"])
  ELSE rs[1].val

ResolvedP(b, kwargs, rs) ==
  CASE b = "temp+pressure" -> kPa_to_Pa(kwargs["pressure"])
    [] b = "temp+quality" -> rs[1].val
    [] b = "enthalpy+entropy" -> rs[2].val
    [] OTHER -> kPa_to_Pa(kwargs["pressure"])

\* Lines 37-62, given the branch, its queries qs, their answers rs and the
\* index bad of the first failed one: T and P, the queries issued (the
\* failed one included) and, on failure, the message raised.
ResolveWith(b, kwargs, qs, rs, bad) ==
  IF b = "else"
    THEN [ok |-> FALSE, T |-> 0, P |-> 0, log |-> << >>, msg |-> MsgTwoProperties]
  ELSE IF bad # 0
    THEN [ok |-> FALSE, T |-> 0, P |-> 0, log |-> SubSeq(qs, 1, bad),
          msg |-> rs[bad].msg]
  ELSE [ok |-> TRUE, T |-> ResolvedT(b, kwargs, rs), P |-> ResolvedP(b, kwargs, rs),
        log |-> qs, msg |-> ""]

ResolveRun(c, b, kwargs, qs, rs) ==
  ResolveWith(b, kwargs, qs, rs, FirstFailure(rs, Len(qs)))

ResolveQueries(c, b, kwargs, qs) == ResolveRun(c, b, kwargs, qs, RunQueries(c, qs))

ResolveBranch(c, b, fluid, kwargs) ==
  ResolveQueries(c, b, kwargs, ResolutionQueries(b, fluid, kwargs))

ResolveTP(c, fluid, kwargs) == ResolveBranch(c, InputBranch(kwargs), fluid, kwargs)

\* Lines 74-82: the quality, from the outcome r of the quality query.
\* NormalizeQuality with the lower bound of the range test left out.
NormalizeQuality_NoLowerBound(r) ==
  IF r.ok THEN (IF r.val <= 100 THEN Some(r.val) ELSE None)
  ELSE None

NormalizeQuality(r) ==
  IF r.ok THEN (IF 0 <= r.val /\ r.val <= 100 THEN Some(r.val) ELSE None)
  ELSE None

\* The property queries of lines 68-76, in the order issued.
\* PopulateQueries with the internal energy asked as a second enthalpy.
PopulateQueries_EnthalpyTwice(T, P, fluid) ==
  <<Query("H", "T", T, "P", P, fluid),
    Query("S", "T", T, "P", P, fluid),
    Query("D", "T", T, "P", P, fluid),
    Query("H", "T", T, "P", P, fluid),
    Query("Q", "T", T, "P", P, fluid)>>

PopulateQueries(T, P, fluid) ==
  <<Query("H", "T", T, "P", P, fluid),
    Query("S", "T", T, "P", P, fluid),
    Query("D", "T", T, "P", P, fluid),
    Query("U", "T", T, "P", P, fluid),
    Query("Q", "T", T, "P", P, fluid)>>

\* Lines 64-84, given the queries qs, their answers rs and the index bad of
\* the first failed one among enthalpy, entropy, density and internal energy.
PopulateWith(T, P, qs, rs, bad) ==
  IF bad # 0
    THEN [ok |-> FALSE, props |-> << >>, log |-> SubSeq(qs, 1, bad), msg |-> rs[bad].msg]
  ELSE IF rs[3].val = 0
    THEN [ok |-> FALSE, props |-> << >>, log |-> SubSeq(qs, 1, 3),
          msg |-> MsgZeroDivision]
  ELSE [ok |-> TRUE,
        props |-> [temperature |-> K_to_C(T),
                   pressure |-> Pa_to_kPa(P),
                   enthalpy |-> J_to_kJ(rs[1].val),
                   entropy |-> J_to_kJ(rs[2].val),
                   density |-> rs[3].val,
                   specific_volume |-> Reciprocal(rs[3].val),
                   internal_energy |-> J_to_kJ(rs[4].val),
                   quality |-> NormalizeQuality(rs[5])],
        log |-> qs,
        msg |-> ""]

PopulateRun(T, P, qs, rs) == PopulateWith(T, P, qs, rs, FirstFailure(rs, 4))

PopulateFrom(c, T, P, qs) == PopulateRun(T, P, qs, RunQueries(c, qs))

Populate(c, fluid, T, P) == PopulateFrom(c, T, P, PopulateQueries(T, P, fluid))

\* Lines 84-87: the state returned, or the exception of the try block
\* wrapped.
get_properties_end(r, pp) ==
  IF ~pp.ok
    THEN [ok |-> FALSE, ret |-> << >>, err |-> WrapError(pp.msg), log |-> r.log \o pp.log]
  ELSE [ok |-> TRUE, ret |-> pp.props, err |-> NoError, log |-> r.log \o pp.log]

get_properties_resolved(c, fluid, r) ==
  IF ~r.ok THEN [ok |-> FALSE, ret |-> << >>, err |-> WrapError(r.msg), log |-> r.log]
  ELSE get_properties_end(r, Populate(c, fluid, r.T, r.P))

\* PropertyCalculator.get_properties(**kwargs): the state returned or the
\* exception raised, and the collaborator queries issued on the way.
get_properties(c, fluid, kwargs) ==
  get_properties_resolved(c, fluid, ResolveTP(c, fluid, kwargs))

\* The first query of get_saturation_properties (lines 92-97).
SaturationFirstQuery(fluid, temp, pressure) ==
  IF temp # None THEN Query("P", "T", C_to_K(temp[1]), "Q", 0, fluid)
  ELSE Query("T", "P", kPa_to_Pa(pressure[1]), "Q", 0, fluid)

\* Its saturated-liquid and saturated-vapour queries (lines 106-113).
SaturationQueries(P, fluid) ==
  <<Query("H", "P", P, "Q", 0, fluid),
    Query("S", "P", P, "Q", 0, fluid),
    Query("D", "P", P, "Q", 0, fluid),
    Query("H", "P", P, "Q", 100, fluid),
    Query("S", "P", P, "Q", 100, fluid),
    Query("D", "P", P, "Q", 100, fluid)>>

\* Lines 101-119, given T and P, the first query q0, the queries qs, their
\* answers rs and the index bad of the first failed one.
SaturationWith(T, P, q0, qs, rs, bad) ==
  IF bad # 0 /\ ~(bad > 3 /\ rs[3].val = 0)
    THEN [ok |-> FALSE, ret |-> << >>, err |-> NativeError(rs[bad].msg),
          log |-> <<q0>> \o SubSeq(qs, 1, bad)]
  ELSE IF rs[3].val = 0
    THEN [ok |-> FALSE, ret |-> << >>, err |-> ZeroDivisionError,
          log |-> <<q0>> \o SubSeq(qs, 1, 3)]
  ELSE IF rs[6].val = 0
    THEN [ok |-> FALSE, ret |-> << >>, err |-> ZeroDivisionError, log |-> <<q0>> \o qs]
  ELSE [ok |-> TRUE,
        ret |-> [temperature |-> K_to_C(T),
                 pressure |-> Pa_to_kPa(P),
                 h_f |-> J_to_kJ(rs[1].val),
                 s_f |-> J_to_kJ(rs[2].val),
                 v_f |-> Reciprocal(rs[3].val),
                 h_g |-> J_to_kJ(rs[4].val),
                 s_g |-> J_to_kJ(rs[5].val),
                 v_g |-> Reciprocal(rs[6].val),
                 h_fg |-> J_to_kJ(rs[4].val) - J_to_kJ(rs[1].val),
                 s_fg |-> J_to_kJ(rs[5].val) - J_to_kJ(rs[2].val)],
        err |-> NoError,
        log |-> <<q0>> \o qs]

SaturationRun(T, P, q0, qs, rs) ==
  SaturationWith(T, P, q0, qs, rs, FirstFailure(rs, 6))

SaturationFrom(c, T, P, q0, qs) == SaturationRun(T, P, q0, qs, RunQueries(c, qs))

SaturationAt(c, fluid, T, P, q0) ==
  SaturationFrom(c, T, P, q0, SaturationQueries(P, fluid))

SaturationFirst(c, fluid, temp, pressure, q0, r0) ==
  IF ~r0.ok
    THEN [ok |-> FALSE, ret |-> << >>, err |-> NativeError(r0.msg), log |-> <<q0>>]
  ELSE IF temp # None THEN SaturationAt(c, fluid, C_to_K(temp[1]), r0.val, q0)
  ELSE SaturationAt(c, fluid, r0.val, kPa_to_Pa(pressure[1]), q0)

SaturationStart(c, fluid, temp, pressure, q0) ==
  SaturationFirst(c, fluid, temp, pressure, q0, PropsSI(c, q0))

\* PropertyCalculator.get_saturation_properties(temp, pressure): no
\* try/except surrounds its queries.
get_saturation_properties(c, fluid, temp, pressure) ==
  IF temp = None /\ pressure = None
    THEN [ok |-> FALSE, ret |-> << >>, err |-> Error("ValueError", <<MsgTempOrPressure>>),
          log |-> << >>]
  ELSE SaturationStart(c, fluid, temp, pressure,
                       SaturationFirstQuery(fluid, temp, pressure))

\* Lines 20-22 of PropertyCalculator.__init__: the canonical name selected,
\* or the exception (its message ends with the identifier given).
\* PropertyCalculator_init looking the identifier up as it is written.
PropertyCalculator_init_CaseSensitive(fluid) ==
  IF fluid \notin DOMAIN FLUID_MAP
    THEN [ok |-> FALSE, fluid |-> << >>,
          err |-> Error("ValueError", <<MsgUnsupportedFluid>>)]
  ELSE [ok |-> TRUE, fluid |-> FLUID_MAP[fluid], err |-> NoError]

PropertyCalculator_init(fluid) ==
  IF lower(fluid) \notin DOMAIN FLUID_MAP
    THEN [ok |-> FALSE, fluid |-> << >>,
          err |-> Error("ValueError", <<MsgUnsupportedFluid>>)]
  ELSE [ok |-> TRUE, fluid |-> FLUID_MAP[lower(fluid)], err |-> NoError]

(***************************************************************************)
(* ProcessAnalyzer (src/src/processes.py).  Each operation gives the       *)
(* result returned or the exception raised, the collaborator queries       *)
(* issued and the number of facade calls made (ncalls).  An operation is   *)
(* written as a chain, one link for each facade call or computation, the   *)
(* link receiving what the earlier ones produced.                          *)
(***************************************************************************)
KW2(k1, v1, k2, v2) == [k \in {k1, k2} |-> IF k = k1 THEN v1 ELSE v2]

Abs(x) == IF x < 0 THEN -x ELSE x

\* a / b on floats.  The inputs of the model make every quotient either
\* exact or a value that is not in the collaborator's table.
FloatDiv(a, b) == a \div b

Raise(e, log, n) == [ok |-> FALSE, ret |-> << >>, err |-> e, log |-> log, ncalls |-> n]

Return(v, log, n) == [ok |-> TRUE, ret |-> v, err |-> NoError, log |-> log, ncalls |-> n]

\* Lines 34-38: the actual outlet enthalpy; efficiency in percent.
\* h_actual with the enthalpy change of the expansion added instead of
\* subtracted.
h_actual_ExpansionAdds(inlet, outlet_s, efficiency, process_type) ==
  IF process_type = "compression"
    THEN IF efficiency = 0 THEN [ok |-> FALSE, val |-> 0]
         ELSE [ok |-> TRUE,
               val |-> inlet.enthalpy
                       + FloatDiv((outlet_s.enthalpy - inlet.enthalpy) * 100, efficiency)]
  ELSE [ok |-> TRUE,
        val |-> inlet.enthalpy
                + FloatDiv((inlet.enthalpy - outlet_s.enthalpy) * efficiency, 100)]

h_actual(inlet, outlet_s, efficiency, process_type) ==
  IF process_type = "compression"
    THEN IF efficiency = 0 THEN [ok |-> FALSE, val |-> 0]
         ELSE [ok |-> TRUE,
               val |-> inlet.enthalpy
                       + FloatDiv((outlet_s.enthalpy - inlet.enthalpy) * 100, efficiency)]
  ELSE [ok |-> TRUE,
        val |-> inlet.enthalpy
                - FloatDiv((inlet.enthalpy - outlet_s.enthalpy) * efficiency, 100)]

\* Line 43.
isentropic_work(inlet, outlet_actual) == outlet_actual.enthalpy - inlet.enthalpy

\* Lines 40-52.
isentropic_outlet_actual(efficiency, process_type, g1, g2, g3) ==
  IF ~g3.ok THEN Raise(g3.err, g1.log \o g2.log \o g3.log, 3)
  ELSE Return([inlet |-> g1.ret,
               outlet_isentropic |-> g2.ret,
               outlet_actual |-> g3.ret,
               work |-> isentropic_work(g1.ret, g3.ret),
               efficiency |-> efficiency,
               process_type |-> process_type],
              g1.log \o g2.log \o g3.log, 3)

\* Lines 34-40.
isentropic_h_actual(c, fluid, outlet_pressure, efficiency, process_type, g1, g2, ha) ==
  IF ~ha.ok THEN Raise(ZeroDivisionError, g1.log \o g2.log, 2)
  ELSE isentropic_outlet_actual(
         efficiency, process_type, g1, g2,
         get_properties(c, fluid, KW2("pressure", outlet_pressure, "enthalpy", ha.val)))

\* Lines 32-38.
isentropic_outlet_s(c, fluid, outlet_pressure, efficiency, process_type, g1, g2) ==
  IF ~g2.ok THEN Raise(g2.err, g1.log \o g2.log, 2)
  ELSE isentropic_h_actual(c, fluid, outlet_pressure, efficiency, process_type, g1, g2,
                           h_actual(g1.ret, g2.ret, efficiency, process_type))

\* Lines 29-32.
isentropic_inlet(c, fluid, outlet_pressure, efficiency, process_type, g1) ==
  IF ~g1.ok THEN Raise(g1.err, g1.log, 1)
  ELSE isentropic_outlet_s(
         c, fluid, outlet_pressure, efficiency, process_type, g1,
         get_properties(c, fluid,
                        KW2("pressure", outlet_pressure, "entropy", g1.ret.entropy)))

isentropic_process(c, fluid, inlet_temp, inlet_pressure, outlet_pressure, efficiency, process_type) ==
  isentropic_inlet(
    c, fluid, outlet_pressure, efficiency, process_type,
    get_properties(c, fluid, KW2("temp", inlet_temp, "pressure", inlet_pressure)))

isobaric_outlet(pressure, g1, g2) ==
  IF ~g2.ok THEN Raise(g2.err, g1.log \o g2.log, 2)
  ELSE Return([inlet |-> g1.ret,
               outlet |-> g2.ret,
               heat_transfer |-> g2.ret.enthalpy - g1.ret.enthalpy,
               pressure |-> pressure],
              g1.log \o g2.log, 2)

isobaric_inlet(c, fluid, pressure, outlet_temp, g1) ==
  IF ~g1.ok THEN Raise(g1.err, g1.log, 1)
  ELSE isobaric_outlet(
         pressure, g1,
         get_properties(c, fluid, KW2("temp", outlet_temp, "pressure", pressure)))

isobaric_process(c, fluid, inlet_temp, pressure, outlet_temp) ==
  isobaric_inlet(c, fluid, pressure, outlet_temp,
                 get_properties(c, fluid, KW2("temp", inlet_temp, "pressure", pressure)))

isochoric_outlet(g1, g2) ==
  IF ~g2.ok THEN Raise(g2.err, g1.log \o g2.log, 2)
  ELSE Return([inlet |-> g1.ret,
               outlet |-> g2.ret,
               heat_transfer |-> g2.ret.internal_energy - g1.ret.internal_energy,
               specific_volume |-> g1.ret.specific_volume],
              g1.log \o g2.log, 2)

\* Line 76: inlet_pressure * (outlet_temp + 273.15) / (inlet_temp + 273.15)
isochoric_outlet_pressure(inlet_temp, inlet_pressure, outlet_temp) ==
  IF C_to_K(inlet_temp) = 0 THEN [ok |-> FALSE, val |-> 0]
  ELSE [ok |-> TRUE,
        val |-> FloatDiv(inlet_pressure * C_to_K(outlet_temp), C_to_K(inlet_temp))]

isochoric_pressure(c, fluid, outlet_temp, g1, op_) ==
  IF ~op_.ok THEN Raise(ZeroDivisionError, g1.log, 1)
  ELSE isochoric_outlet(
         g1, get_properties(c, fluid, KW2("temp", outlet_temp, "pressure", op_.val)))

isochoric_inlet(c, fluid, inlet_temp, inlet_pressure, outlet_temp, g1) ==
  IF ~g1.ok THEN Raise(g1.err, g1.log, 1)
  ELSE isochoric_pressure(c, fluid, outlet_temp, g1,
                          isochoric_outlet_pressure(inlet_temp, inlet_pressure, outlet_temp))

isochoric_process(c, fluid, inlet_temp, inlet_pressure, outlet_temp) ==
  isochoric_inlet(
    c, fluid, inlet_temp, inlet_pressure, outlet_temp,
    get_properties(c, fluid, KW2("temp", inlet_temp, "pressure", inlet_pressure)))

throttling_outlet(g1, g2) ==
  IF ~g2.ok THEN Raise(g2.err, g1.log \o g2.log, 2)
  ELSE Return([inlet |-> g1.ret,
               outlet |-> g2.ret,
               temperature_drop |-> g1.ret.temperature - g2.ret.temperature,
               enthalpy |-> g1.ret.enthalpy],
              g1.log \o g2.log, 2)

\* The keyword arguments of the outlet query of line 94.
throttling_outlet_kwargs(outlet_pressure, inlet) ==
  KW2("pressure", outlet_pressure, "enthalpy", inlet.enthalpy)

throttling_inlet(c, fluid, outlet_pressure, g1) ==
  IF ~g1.ok THEN Raise(g1.err, g1.log, 1)
  ELSE throttling_outlet(
         g1, get_properties(c, fluid, throttling_outlet_kwargs(outlet_pressure, g1.ret)))

throttling_process(c, fluid, inlet_temp, inlet_pressure, outlet_pressure) ==
  throttling_inlet(
    c, fluid, outlet_pressure,
    get_properties(c, fluid, KW2("temp", inlet_temp, "pressure", inlet_pressure)))

\* Line 116: (outlet_pressure / inlet_pressure) ** ((n - 1) / n) as a
\* fraction <<numerator, denominator>>; n in tenths.  The exponent is -1 for
\* n = 0.5 and 0 for n = 1, the indices of the model.
T_ratio(inlet_pressure, outlet_pressure, n) ==
  IF n = 0 THEN [ok |-> FALSE, val |-> <<0, 1>>]                  \* (n - 1) / n
  ELSE IF inlet_pressure = 0 THEN [ok |-> FALSE, val |-> <<0, 1>>]  \* outlet / inlet
  ELSE IF FloatDiv((n - 10) * 10, n) = 0 THEN [ok |-> TRUE, val |-> <<1, 1>>]
  ELSE IF FloatDiv((n - 10) * 10, n) = -10
    THEN IF outlet_pressure = 0 THEN [ok |-> FALSE, val |-> <<0, 1>>]  \* 0.0 ** -1.0
         ELSE [ok |-> TRUE, val |-> <<inlet_pressure, outlet_pressure>>]
  ELSE [ok |-> FALSE, val |-> <<0, 0>>]   \* an exponent outside the model

\* math.log(a / b) in hundredths, for the ratios of the table's pressures.
LogCenti(a, b) ==
  CASE a = b -> 0
    [] a = 2 * b -> 69
    [] 2 * a = b -> -69

\* Lines 122-127; pressures in kPa, volumes in 1e-5 m3/kg, the result in
\* 1e-7 kJ/kg.
polytropic_work(inlet, outlet, inlet_pressure, outlet_pressure, n) ==
  IF 100 * Abs(n - 10) < 1
    THEN inlet_pressure * inlet.specific_volume * LogCenti(outlet_pressure, inlet_pressure)
  ELSE FloatDiv(n * 100
                * (outlet_pressure * outlet.specific_volume
                   - inlet_pressure * inlet.specific_volume),
                n - 10)

polytropic_outlet(inlet_pressure, outlet_pressure, n, g1, g2) ==
  IF ~g2.ok THEN Raise(g2.err, g1.log \o g2.log, 2)
  ELSE Return([inlet |-> g1.ret,
               outlet |-> g2.ret,
               work |-> polytropic_work(g1.ret, g2.ret, inlet_pressure,
                                        outlet_pressure, n),
               polytropic_index |-> n],
              g1.log \o g2.log, 2)

\* Line 117.
polytropic_outlet_temp(inlet_temp, tr) ==
  K_to_C(FloatDiv(C_to_K(inlet_temp) * tr[1], tr[2]))

polytropic_ratio(c, fluid, inlet_temp, inlet_pressure, outlet_pressure, n, g1, tr) ==
  IF ~tr.ok THEN Raise(ZeroDivisionError, g1.log, 1)
  ELSE polytropic_outlet(
         inlet_pressure, outlet_pressure, n, g1,
         get_properties(c, fluid,
                        KW2("temp", polytropic_outlet_temp(inlet_temp, tr.val),
                            "pressure", outlet_pressure)))

polytropic_inlet(c, fluid, inlet_temp, inlet_pressure, outlet_pressure, n, g1) ==
  IF ~g1.ok THEN Raise(g1.err, g1.log, 1)
  ELSE polytropic_ratio(c, fluid, inlet_temp, inlet_pressure, outlet_pressure, n, g1,
                        T_ratio(inlet_pressure, outlet_pressure, n))

polytropic_process(c, fluid, inlet_temp, inlet_pressure, outlet_pressure, n) ==
  polytropic_inlet(
    c, fluid, inlet_temp, inlet_pressure, outlet_pressure, n,
    get_properties(c, fluid, KW2("temp", inlet_temp, "pressure", inlet_pressure)))

\* Lines 11-13 of ProcessAnalyzer.__init__.
ProcessAnalyzer_calc(fluid, pc) ==
  IF ~pc.ok THEN [ok |-> FALSE, calc |-> << >>, fluid |-> << >>, err |-> pc.err]
  ELSE [ok |-> TRUE, calc |-> pc.fluid, fluid |-> fluid, err |-> NoError]

ProcessAnalyzer_init(fluid) == ProcessAnalyzer_calc(fluid, PropertyCalculator_init(fluid))

(***************************************************************************)
(* The `property` command (src/src/cli.py).                                *)
(***************************************************************************)
Keys == {"temp", "pressure", "quality", "enthalpy", "entropy"}

\* Lines 26-37: the keyword arguments built from the options given.
BuildKwargs(options) ==
  [k \in {x \in Keys : options[x] # None} |-> options[k][1]]

\* Lines 23-57: the table printed, or the error line printed.
cli_property_end(g) ==
  IF ~g.ok THEN [status |-> "error printed", ret |-> << >>, err |-> g.err, log |-> g.log]
  ELSE [status |-> "table printed", ret |-> g.ret, err |-> NoError, log |-> g.log]

cli_property_calc(c, options, calc) ==
  IF ~calc.ok
    THEN [status |-> "error printed", ret |-> << >>, err |-> calc.err, log |-> << >>]
  ELSE cli_property_end(get_properties(c, calc.fluid, BuildKwargs(options)))

cli_property(c, fluid, options) ==
  cli_property_calc(c, options, PropertyCalculator_init(fluid))

(***************************************************************************)
(* The inputs of the model.                                                *)
(***************************************************************************)
s_WATER == <<87, 65, 84, 69, 82>>
s_R134A == <<82, 49, 51, 52, 65>>
s_xyz == <<120, 121, 122>>
s_waters == <<119, 97, 116, 101, 114, 115>>

FluidInputs == {s_water, s_WATER, s_R134A, s_xyz, s_waters}

Opt(S) == {None} \cup {Some(x) : x \in S}

\* The options of get_properties: temperatures in 0.01 C, pressures in kPa,
\* quality in percent, enthalpy in kJ/kg, entropy in kJ/kg-K.
Options ==
  [temp : Opt({0, 5000}), pressure : Opt({100, 200}), quality : Opt({0, 50}),
   enthalpy : Opt({300, 400}), entropy : Opt({0, 1})]

CliOptions ==
  [temp : Opt({5000}), pressure : Opt({100}), quality : Opt({50}),
   enthalpy : Opt({400}), entropy : Opt({1})]

SatTemps == Opt({0, 5000})

SatPressures == Opt({200, 300})

Temps == {0, 5000, 27315}

IsentropicTemps == {0, 5000}

Pressures == {0, 100, 200}

Efficiencies == {0, 50, 100}

ProcessTypes == {"compression", "expansion", "None"}

Indices == {0, 5, 10}

(***************************************************************************)
(* The operations tabulated over the inputs of the model.  Each is a       *)
(* function of the collaborator, the fluid and the arguments alone, so its *)
(* values are computed once and the actions look them up (Tabulated makes  *)
(* the model checker build the function instead of its rule).              *)
(***************************************************************************)
Tabulated(f) == f @@ << >>

\* The canonical names that the identifiers of the model select.
FluidsUsed ==
  {PropertyCalculator_init(f).fluid : f \in {x \in FluidInputs : PropertyCalculator_init(x).ok}}

PerFluid(Op(_, _)) ==
  Tabulated([c \in CollaboratorModes |->
               Tabulated([f \in FluidsUsed |-> Op(c, f)])])

get_properties_row(c, f) ==
  Tabulated([o \in Options |-> get_properties(c, f, BuildKwargs(o))])

get_properties_of == PerFluid(get_properties_row)

get_saturation_properties_row(c, f) ==
  Tabulated([a \in SatTemps \X SatPressures |->
               get_saturation_properties(c, f, a[1], a[2])])

get_saturation_properties_of == PerFluid(get_saturation_properties_row)

isentropic_process_row(c, f) ==
  Tabulated([a \in IsentropicTemps \X Pressures \X Pressures \X Efficiencies
                   \X ProcessTypes |->
               isentropic_process(c, f, a[1], a[2], a[3], a[4], a[5])])

isentropic_process_of == PerFluid(isentropic_process_row)

isobaric_process_row(c, f) ==
  Tabulated([a \in Temps \X Pressures \X Temps |->
               isobaric_process(c, f, a[1], a[2], a[3])])

isobaric_process_of == PerFluid(isobaric_process_row)

isochoric_process_row(c, f) ==
  Tabulated([a \in Temps \X Pressures \X Temps |->
               isochoric_process(c, f, a[1], a[2], a[3])])

isochoric_process_of == PerFluid(isochoric_process_row)

throttling_process_row(c, f) ==
  Tabulated([a \in Temps \X Pressures \X Pressures |->
               throttling_process(c, f, a[1], a[2], a[3])])

throttling_process_of == PerFluid(throttling_process_row)

polytropic_process_row(c, f) ==
  Tabulated([a \in Temps \X Pressures \X Pressures \X Indices |->
               polytropic_process(c, f, a[1], a[2], a[3], a[4])])

polytropic_process_of == PerFluid(polytropic_process_row)

cli_property_of ==
  Tabulated([c \in CollaboratorModes |->
               Tabulated([f \in FluidInputs |->
                            Tabulated([o \in CliOptions |-> cli_property(c, f, o)])])])

(***************************************************************************)
(* The state machine: one instance at a time (self) and the identifier it  *)
(* was constructed with (created), the number of calls made on it (calls), *)
(* the last operation (op), what it returned or raised (out), the          *)
(* collaborator queries it issued (qlog) and the facade calls it made      *)
(* (ncalls).                                                               *)
(***************************************************************************)
NoInstance == [cls |-> "none", fluid |-> << >>, calc |-> << >>]

Outcome(r) ==
  [status |-> IF r.ok THEN "returned" ELSE "raised", ret |-> r.ret, err |-> r.err]

Init ==
  /\ cp \in CollaboratorModes
  /\ self = NoInstance
  /\ created = << >>
  /\ calls = 0
  /\ op = [name |-> "none", args |-> << >>]
  /\ out = [status |-> "none", ret |-> << >>, err |-> NoError]
  /\ qlog = << >>
  /\ ncalls = 0

\* calc = PropertyCalculator(fluid)
New_PropertyCalculator ==
  \E fluid \in FluidInputs :
    LET r == PropertyCalculator_init(fluid)
    IN  /\ self' = IF r.ok
                     THEN [cls |-> "PropertyCalculator", fluid |-> r.fluid, calc |-> << >>]
                   ELSE self
        /\ created' = IF r.ok THEN fluid ELSE created
        /\ calls' = IF r.ok THEN 0 ELSE calls
        /\ op' = [name |-> "PropertyCalculator", args |-> <<fluid>>]
        /\ out' = [status |-> IF r.ok THEN "returned" ELSE "raised",
                   ret |-> << >>, err |-> r.err]
        /\ qlog' = << >>
        /\ ncalls' = 0
        /\ UNCHANGED cp

\* analyzer = ProcessAnalyzer(fluid)
New_ProcessAnalyzer ==
  \E fluid \in FluidInputs :
    LET r == ProcessAnalyzer_init(fluid)
    IN  /\ self' = IF r.ok
                     THEN [cls |-> "ProcessAnalyzer", fluid |-> r.fluid, calc |-> r.calc]
                   ELSE self
        /\ created' = IF r.ok THEN fluid ELSE created
        /\ calls' = IF r.ok THEN 0 ELSE calls
        /\ op' = [name |-> "ProcessAnalyzer", args |-> <<fluid>>]
        /\ out' = [status |-> IF r.ok THEN "returned" ELSE "raised",
                   ret |-> << >>, err |-> r.err]
        /\ qlog' = << >>
        /\ ncalls' = 0
        /\ UNCHANGED cp

\* The attributes of the instance after a method call: no method assigns one.
\* A method that rebinds the fluid attribute of its instance.
SelfAfterCall_RebindsFluid(s) == [s EXCEPT !.fluid = lower(s.fluid)]

SelfAfterCall(s) == s

FacadeCall(name, args, r) ==
  /\ self.cls = "PropertyCalculator"
  /\ calls < MaxCalls
  /\ calls' = calls + 1
  /\ self' = SelfAfterCall(self)
  /\ created' = created
  /\ op' = [name |-> name, args |-> args]
  /\ out' = Outcome(r)
  /\ qlog' = r.log
  /\ ncalls' = 0
  /\ UNCHANGED cp

AnalyzerCall(name, args, r) ==
  /\ self.cls = "ProcessAnalyzer"
  /\ calls < MaxCalls
  /\ calls' = calls + 1
  /\ self' = SelfAfterCall(self)
  /\ created' = created
  /\ op' = [name |-> name, args |-> args]
  /\ out' = Outcome(r)
  /\ qlog' = r.log
  /\ ncalls' = r.ncalls
  /\ UNCHANGED cp

Call_get_properties ==
  \E o \in Options :
    FacadeCall("get_properties", BuildKwargs(o),
               get_properties_of[cp][self.fluid][o])

Call_get_saturation_properties ==
  \E t \in SatTemps, p \in SatPressures :
    FacadeCall("get_saturation_properties", <<t, p>>,
               get_saturation_properties_of[cp][self.fluid][<<t, p>>])

Call_isentropic_process ==
  \E t \in IsentropicTemps, p1 \in Pressures, p2 \in Pressures, e \in Efficiencies,
     pt \in ProcessTypes :
    AnalyzerCall("isentropic_process", <<t, p1, p2, e, pt>>,
                 isentropic_process_of[cp][self.calc][<<t, p1, p2, e, pt>>])

Call_isobaric_process ==
  \E t1 \in Temps, p \in Pressures, t2 \in Temps :
    AnalyzerCall("isobaric_process", <<t1, p, t2>>,
                 isobaric_process_of[cp][self.calc][<<t1, p, t2>>])

Call_isochoric_process ==
  \E t1 \in Temps, p \in Pressures, t2 \in Temps :
    AnalyzerCall("isochoric_process", <<t1, p, t2>>,
                 isochoric_process_of[cp][self.calc][<<t1, p, t2>>])

Call_throttling_process ==
  \E t \in Temps, p1 \in Pressures, p2 \in Pressures :
    AnalyzerCall("throttling_process", <<t, p1, p2>>,
                 throttling_process_of[cp][self.calc][<<t, p1, p2>>])

Call_polytropic_process ==
  \E t \in Temps, p1 \in Pressures, p2 \in Pressures, n \in Indices :
    AnalyzerCall("polytropic_process", <<t, p1, p2, n>>,
                 polytropic_process_of[cp][self.calc][<<t, p1, p2, n>>])

\* One run of the `property` command: a process of its own.
Run_cli_property ==
  \E fluid \in FluidInputs, o \in CliOptions :
    LET r == cli_property_of[cp][fluid][o]
    IN  /\ self = NoInstance
        /\ op' = [name |-> "cli.property", args |-> <<fluid, BuildKwargs(o)>>]
        /\ out' = [status |-> r.status, ret |-> r.ret, err |-> r.err]
        /\ qlog' = r.log
        /\ ncalls' = 0
        /\ UNCHANGED <<cp, self, created, calls>>

Next ==
  \/ New_PropertyCalculator
  \/ New_ProcessAnalyzer
  \/ Call_get_properties
  \/ Call_get_saturation_properties
  \/ Call_isentropic_process
  \/ Call_isobaric_process
  \/ Call_isochoric_process
  \/ Call_throttling_process
  \/ Call_polytropic_process
  \/ Run_cli_property

Spec == Init /\ [][Next]_vars

(***************************************************************************)
(* The properties checked.                                                 *)
(***************************************************************************)
FivePairs ==
  {{"temp", "pressure"}, {"temp", "quality"}, {"pressure", "enthalpy"},
   {"pressure", "entropy"}, {"enthalpy", "entropy"}}

ProcessOps ==
  {"isentropic_process", "isobaric_process", "isochoric_process",
   "throttling_process", "polytropic_process"}

FacadeOps == {"get_properties", "get_saturation_properties"}

Range(q) == {q[k] : k \in 1..Len(q)}

\* The error kinds of the specification, as the exceptions of the code: the
\* code raises ValueError throughout, the kind is told by the message.
IsUnsupportedFluidError(e) ==
  e.type = "ValueError" /\ Len(e.msg) >= 1 /\ e.msg[1] = MsgUnsupportedFluid

IsInvalidInputCombination(e) == e.type = "ValueError" /\ MsgTwoProperties \in Range(e.msg)

IsPropertyCalculationError(e) ==
  e.type = "ValueError" /\ Len(e.msg) = 2 /\ e.msg[1] = MsgWrapper

IsInvalidInputError(e) == e.type = "InvalidInputError"

\* The keyword arguments of the last call, a get_properties or a run of the
\* `property` command.
GivenKwargs == IF op.name = "cli.property" THEN op.args[2] ELSE op.args

\* C1: get_properties succeeds only when the set of properties given is one
\* of the five pairs; with any other set (none, one, an unsupported pair,
\* three or more) it fails with an InvalidInputCombination error and returns
\* no state.  The `property` command prints a table only for the five pairs.
C1_OnlyTheFivePairs ==
  /\ op.name = "get_properties" =>
       /\ out.status = "returned" => DOMAIN GivenKwargs \in FivePairs
       /\ DOMAIN GivenKwargs \notin FivePairs =>
            out.status = "raised" /\ IsInvalidInputCombination(out.err)
  /\ op.name = "cli.property" =>
       (out.status = "table printed" => DOMAIN GivenKwargs \in FivePairs)

\* The queries of the last call that failed, the best-effort quality query
\* of get_properties (specified as not propagated) left aside.
FailedQueries ==
  {k \in 1..Len(qlog) : qlog[k].out # "Q" /\ ~PropsSI(cp, qlog[k]).ok}

\* C2: when a collaborator query of get_properties or of
\* get_saturation_properties fails, the operation fails with the
\* PropertyCalculationError carrying the collaborator's message; the
\* collaborator's own error never reaches the caller.
C2_NativeErrorNeverEscapes ==
  (op.name \in FacadeOps /\ FailedQueries # {}) =>
    /\ out.status = "raised"
    /\ IsPropertyCalculationError(out.err)
    /\ \E k \in FailedQueries : out.err.msg[2] = PropsSI(cp, qlog[k]).msg

\* Whether two identifiers are equal, letter case aside.
SameIgnoringCase(a, b) ==
  Len(a) = Len(b) /\ \A k \in 1..Len(a) : lower_char(a[k]) = lower_char(b[k])

\* C3: constructing a PropertyCalculator or a ProcessAnalyzer with an
\* identifier that matches none of water, air, r134a, r22, co2 (letter case
\* aside) fails with UnsupportedFluidError and issues no collaborator query;
\* with one that matches, construction succeeds and the facade holds the
\* collaborator's canonical name of that fluid.
C3_FluidCheckedAtConstruction ==
  op.name \in {"PropertyCalculator", "ProcessAnalyzer"} =>
    LET known == {n \in CanonicalNames : SameIgnoringCase(op.args[1], n)}
    IN  /\ known = {} =>
             out.status = "raised" /\ IsUnsupportedFluidError(out.err) /\ qlog = << >>
        /\ known # {} =>
             /\ out.status = "returned"
             /\ created = op.args[1]
             /\ (IF op.name = "PropertyCalculator" THEN self.fluid ELSE self.calc) \in known

C3_Witness ==
  /\ op.name = "ProcessAnalyzer"
  /\ op.args[1] = s_R134A
  /\ out.status = "returned"
  /\ self.calc = s_R134a

\* The arguments of a process operation that the specification calls
\* invalid: a pressure that is not positive, a process_type of None.
InvalidArguments ==
  \/ op.args[2] <= 0
  \/ op.name \in {"isentropic_process", "throttling_process", "polytropic_process"}
       /\ op.args[3] <= 0
  \/ op.name = "isentropic_process" /\ op.args[5] = "None"

\* C4: a process operation called with a missing or invalid argument fails
\* with an InvalidInputError, having made no facade call.
C4_InvalidArgumentsRejectedFirst ==
  (op.name \in ProcessOps /\ InvalidArguments) =>
    out.status = "raised" /\ IsInvalidInputError(out.err) /\ ncalls = 0

\* C5: a process operation fails only with a PropertyCalculationError of one
\* of its facade calls, or with an argument-validation error raised before
\* the first facade call; its own arithmetic raises nothing.
C5_OnlyPropertyCalculationErrors ==
  (op.name \in ProcessOps /\ out.status = "raised") =>
    \/ IsPropertyCalculationError(out.err) /\ ncalls >= 1
    \/ IsInvalidInputError(out.err) /\ ncalls = 0

\* C6: in every result of throttling_process the outlet's enthalpy equals
\* the inlet's, the outlet in the two-phase region included.
C6_ThrottlingKeepsEnthalpy ==
  (op.name = "throttling_process" /\ out.status = "returned") =>
    out.ret.outlet.enthalpy = out.ret.inlet.enthalpy

\* C7: in every result of isentropic_process with efficiency 1.0, for
\* compression and for expansion, the actual outlet enthalpy is the
\* isentropic outlet's, outlet_actual is the same state as
\* outlet_isentropic, and work is outlet_isentropic.enthalpy minus
\* inlet.enthalpy.
C7_UnitEfficiencyIsIsentropic ==
  (op.name = "isentropic_process" /\ out.status = "returned" /\ op.args[4] = 100) =>
    /\ h_actual(out.ret.inlet, out.ret.outlet_isentropic, 100, op.args[5]).val
         = out.ret.outlet_isentropic.enthalpy
    /\ out.ret.outlet_actual = out.ret.outlet_isentropic
    /\ out.ret.work = out.ret.outlet_isentropic.enthalpy - out.ret.inlet.enthalpy

C7_Witness ==
  /\ op.name = "isentropic_process"
  /\ out.status = "returned"
  /\ op.args[4] = 100
  /\ op.args[5] = "expansion"
  /\ out.ret.outlet_isentropic.enthalpy # out.ret.inlet.enthalpy
  /\ out.ret.work = out.ret.outlet_isentropic.enthalpy - out.ret.inlet.enthalpy

\* The answer of the collaborator to the last query of the last call.
LastAnswer == PropsSI(cp, qlog[Len(qlog)])

\* C8: in every state returned by get_properties the quality is absent or a
\* value in [0,1]; it is present exactly when the quality query at the
\* resolved (T,P) returned a value in [0,1], and is then that value; another
\* value (the sentinel -1 of a single-phase state) or a failure of that
\* query gives an absent quality, the call succeeding all the same.
C8_QualityAbsentOrInUnitInterval ==
  (op.name \in {"get_properties", "cli.property"}
     /\ out.status \in {"returned", "table printed"}) =>
    /\ qlog[Len(qlog)]
         = Query("Q", "T", C_to_K(out.ret.temperature),
                 "P", kPa_to_Pa(out.ret.pressure), qlog[Len(qlog)].fluid)
    /\ out.ret.quality = None \/ (out.ret.quality[1] >= 0 /\ out.ret.quality[1] <= 100)
    /\ out.ret.quality # None <=>
         (LastAnswer.ok /\ LastAnswer.val >= 0 /\ LastAnswer.val <= 100)
    /\ out.ret.quality # None => out.ret.quality[1] = LastAnswer.val

C8_Witness ==
  /\ op.name = "get_properties"
  /\ out.status = "returned"
  /\ ~LastAnswer.ok
  /\ out.ret.quality = None
  /\ out.ret.density > 0

\* The number of queries that resolve T and P from a pair.
NResolve(given) ==
  CASE given = {"temp", "pressure"} -> 0
    [] given = {"enthalpy", "entropy"} -> 2
    [] OTHER -> 1

\* T and P as the pair given and the answers to the resolving queries fix
\* them.
ResolvedTemperature ==
  IF "temp" \in DOMAIN op.args THEN C_to_K(op.args["temp"])
  ELSE PropsSI(cp, qlog[1]).val

ResolvedPressure ==
  IF "pressure" \in DOMAIN op.args THEN kPa_to_Pa(op.args["pressure"])
  ELSE PropsSI(cp, qlog[NResolve(DOMAIN op.args)]).val

\* C9: for each of the five pairs a successful get_properties first resolves
\* T and P (with 0, 1 or 2 queries), then issues exactly five queries, for
\* enthalpy, entropy, density, internal energy and quality, each keyed on
\* that (T,P); the temperature and pressure returned are that T and P
\* converted back, and the other fields are the answers to those queries.
C9_ResolveThenPopulate ==
  (op.name = "get_properties" /\ out.status = "returned"
     /\ DOMAIN op.args \in FivePairs) =>
    LET n == NResolve(DOMAIN op.args)
        T == ResolvedTemperature
        P == ResolvedPressure
        answer(k) == PropsSI(cp, qlog[n + k]).val
    IN  /\ Len(qlog) = n + 5
        /\ \A k \in 1..n : <<qlog[k].k1, qlog[k].k2>> # <<"T", "P">>
        /\ \A k \in 1..n : qlog[k].out \in {"T", "P"}
        /\ SubSeq(qlog, n + 1, n + 5)
             = <<Query("H", "T", T, "P", P, self.fluid),
                 Query("S", "T", T, "P", P, self.fluid),
                 Query("D", "T", T, "P", P, self.fluid),
                 Query("U", "T", T, "P", P, self.fluid),
                 Query("Q", "T", T, "P", P, self.fluid)>>
        /\ out.ret.temperature = K_to_C(T)
        /\ out.ret.pressure = Pa_to_kPa(P)
        /\ out.ret.enthalpy = J_to_kJ(answer(1))
        /\ out.ret.entropy = J_to_kJ(answer(2))
        /\ out.ret.density = answer(3)
        /\ out.ret.internal_energy = J_to_kJ(answer(4))

C9_Witness ==
  /\ op.name = "get_properties"
  /\ out.status = "returned"
  /\ DOMAIN op.args = {"enthalpy", "entropy"}
  /\ Len(qlog) = 7
  /\ out.ret.enthalpy = op.args["enthalpy"]

\* The instance that the constructor builds from the identifier given.
FreshInstance(cls, fluid) ==
  IF cls = "PropertyCalculator"
    THEN [cls |-> cls, fluid |-> PropertyCalculator_init(fluid).fluid, calc |-> << >>]
  ELSE [cls |-> cls, fluid |-> ProcessAnalyzer_init(fluid).fluid,
        calc |-> ProcessAnalyzer_init(fluid).calc]

\* The operation o made on the facade of the fluid f.
Perform(c, f, o) ==
  LET a == o.args
  IN  CASE o.name = "get_properties" -> get_properties(c, f, a)
        [] o.name = "get_saturation_properties" ->
             get_saturation_properties(c, f, a[1], a[2])
        [] o.name = "isentropic_process" ->
             isentropic_process(c, f, a[1], a[2], a[3], a[4], a[5])
        [] o.name = "isobaric_process" -> isobaric_process(c, f, a[1], a[2], a[3])
        [] o.name = "isochoric_process" -> isochoric_process(c, f, a[1], a[2], a[3])
        [] o.name = "throttling_process" -> throttling_process(c, f, a[1], a[2], a[3])
        [] o.name = "polytropic_process" ->
             polytropic_process(c, f, a[1], a[2], a[3], a[4])

PerformedFresh == Perform(cp, PropertyCalculator_init(created).fluid, op)

====
